---------------------------- MODULE Spec2Model ----------------------------
(***************************************************************************)
(* Plastic waste sorting system ("Mark II - Hit 400").                     *)
(*                                                                         *)
(* The module models                                                       *)
(*   - RoboticArm (robotic_arm.py): the bin registry, move_to,             *)
(*     pick_and_sort and close, with the serial port as a command trace;   *)
(*   - ColorDetector (color_detection.py): preprocess_roi,                 *)
(*     get_dominant_color, find_closest_color, detect_color;               *)
(*   - ObjectDetector.detect (object_detection.py);                        *)
(*   - WasteSortingApp (Mark_II___Hit_400.py): the Tk callbacks            *)
(*     detect_objects, start_sorting, stop_sorting, sort_objects,          *)
(*     update_frame, update_arm_position and on_closing.                   *)
(*                                                                         *)
(* Specifications:                                                         *)
(*   SpecArm  - RoboticArm driven directly with arbitrary arguments;       *)
(*   SpecPipe - one detection taken through colour classification,         *)
(*              pick-point computation and bin routing;                    *)
(*   Spec     - the application with ObjectDetector.detect as written,     *)
(*              whose triples are (class_name, bbox, confidence);          *)
(*   SpecSort - the application with a detector whose triples may also be  *)
(*              (class_name, confidence, bbox), the order detect_objects   *)
(*              unpacks, so that detections reach the sorting loop;        *)
(*   SpecTick - Spec with the path of each update_frame recorded;          *)
(*   SpecCam  - CameraFeed (camera_feed.py) driven directly;               *)
(*   SpecColor - ColorDetector.detect_color on successive regions;         *)
(*   SpecTrack - ObjectTracker.track (object_tracking.py) frame by frame.  *)
(***************************************************************************)
EXTENDS Integers, Sequences, FiniteSets, TLC

VARIABLES
    camera,             \* self.camera: "None" | "live" | "fallback"
    detector,           \* self.detector is not None
    arm_is_connected,   \* self.arm.is_connected
    ser_open,           \* self.arm.ser is an open serial port
    cam_released,       \* self.camera.release() has run
    running_sorting,    \* self.running_sorting
    latest_detections,  \* self.latest_detections
    latest_frame,       \* self.latest_frame: "None" | "frame" | "annotated"
    start_button,       \* state of self.start_button
    stop_button,        \* state of self.stop_button
    status_var,         \* self.status_var
    troubleshoot_var,   \* self.troubleshoot_var
    sort_callbacks,     \* pending root.after(1000, self.sort_objects) callbacks
    closed,             \* root.destroy() has run
    pc,                 \* the callback the Tk main loop is running
    sort_idx,           \* position of the running sort_objects loop
    inflight,           \* arm calls entered and not yet returned
    last_call,          \* the most recent call into RoboticArm
    last_pass,          \* how the most recent start_sorting or sort_objects ended
    arm_positions,      \* self.arm_positions
    last_roi_hash,      \* self.color_detector.last_roi_hash
    last_dominant_color,\* self.color_detector.last_dominant_color
    pipe,               \* SpecPipe: the detection being processed
    feed,               \* SpecCam: the CameraFeed object
    calls,              \* SpecCam: calls made to release and to close
    tracker,            \* SpecTrack: the ObjectTracker object
    color_call,         \* SpecColor: the last two colour classifications
    actuated,           \* positions of latest_detections already picked
    tick_callbacks,     \* pending root.after(10, self.update_frame) callbacks
    last_tick,          \* SpecTick: the path the last update_frame took
    detect_call         \* the last self.detector.detect: did the model raise

vars == <<camera, detector, arm_is_connected, ser_open, cam_released,
          running_sorting, latest_detections, latest_frame, start_button,
          stop_button, status_var, troubleshoot_var, sort_callbacks, closed,
          pc, sort_idx, inflight, last_call, last_pass,
          arm_positions, last_roi_hash, last_dominant_color, pipe, feed,
          calls, tracker, color_call,
          actuated, tick_callbacks, last_tick, detect_call>>

appVars == <<camera, detector, cam_released, running_sorting,
             latest_detections, latest_frame, start_button, stop_button,
             status_var, troubleshoot_var, sort_callbacks, closed, pc,
             sort_idx, inflight, last_pass, arm_positions, actuated,
             tick_callbacks, last_tick, detect_call>>

armVars == <<arm_is_connected, ser_open, last_call>>

colorVars == <<last_roi_hash, last_dominant_color>>

unitVars == <<feed, calls, tracker, color_call>>

-----------------------------------------------------------------------------
(* RoboticArm: the bin registry                                            *)

PetKeys == {"PET_clear", "PET_blue", "PET_green", "PET_white", "PET_black",
            "PET_orange", "PET_purple", "PET_brown"}

HdpeKeys == {"HDPE_clear", "HDPE_blue", "HDPE_green", "HDPE_white",
             "HDPE_black", "HDPE_orange", "HDPE_purple", "HDPE_brown"}

BinX(key) ==
    CASE key = "PET_clear"   -> 100
      [] key = "PET_blue"    -> 150
      [] key = "PET_green"   -> 200
      [] key = "PET_white"   -> 250
      [] key = "PET_black"   -> 300
      [] key = "PET_orange"  -> 350
      [] key = "PET_purple"  -> 400
      [] key = "PET_brown"   -> 450
      [] key = "HDPE_clear"  -> 500
      [] key = "HDPE_blue"   -> 550
      [] key = "HDPE_green"  -> 600
      [] key = "HDPE_white"  -> 650
      [] key = "HDPE_black"  -> 700
      [] key = "HDPE_orange" -> 750
      [] key = "HDPE_purple" -> 800
      [] key = "HDPE_brown"  -> 850
      [] key = "unknown"     -> 900

\* self.bins
bins == [key \in PetKeys \cup HdpeKeys \cup {"unknown"} |-> <<BinX(key), 200>>]

\* bin_key = f"{cls_name}_{color}" if color != "unknown" else "unknown"
BinKey(cls_name, color) ==
    IF color # "unknown" THEN cls_name \o "_" \o color ELSE "unknown"

BinsGetFirstBin(bin_key) ==
    IF bin_key \in DOMAIN bins THEN bins[bin_key] ELSE bins["PET_clear"]

\* self.bins.get(bin_key, self.bins["unknown"])
BinsGet(bin_key) ==
    IF bin_key \in DOMAIN bins THEN bins[bin_key] ELSE bins["unknown"]

-----------------------------------------------------------------------------
(* RoboticArm: move_to and pick_and_sort as traces of events.              *)
(* <<"MOVE", x, y, z>> and <<"GRIP", g>> are lines written to self.ser,    *)
(* <<"SLEEP", t>> is time.sleep (t in tenths of a second),                 *)
(* <<"RESOLVE", bx, by>> is the bin lookup, and <<"PRINT_MOVE", ...>>,     *)
(* <<"PRINT_PICK", ...>> are the lines printed in simulation.              *)

MoveSettle == 10

GripHold == 5

\* move_to when self.is_connected
MoveToConnected(x, y, z) == << <<"MOVE", x, y, z>>, <<"SLEEP", MoveSettle>> >>

\* move_to when not self.is_connected
MoveToSimulated(x, y, z) == << <<"PRINT_MOVE", x, y, z>> >>

MoveToAlwaysWrites(connected, x, y, z) == MoveToConnected(x, y, z)

\* move_to
MoveTo(connected, x, y, z) ==
    IF connected THEN MoveToConnected(x, y, z) ELSE MoveToSimulated(x, y, z)

GripNoHold(g) == << <<"GRIP", g>> >>

\* self.ser.write(b"GRIP g\n") and time.sleep(0.5)
Grip(g) == << <<"GRIP", g>>, <<"SLEEP", GripHold>> >>

PickConnectedReleaseFirst(x, y, cls_name, color) ==
    LET b == BinsGet(BinKey(cls_name, color)) IN
        MoveTo(TRUE, x, y, 0) \o MoveTo(TRUE, x, y, -10) \o Grip(0)
        \o MoveTo(TRUE, x, y, 0)
        \o << <<"RESOLVE", b[1], b[2]>> >>
        \o MoveTo(TRUE, b[1], b[2], 0) \o MoveTo(TRUE, b[1], b[2], -10)
        \o Grip(1) \o MoveTo(TRUE, b[1], b[2], 0)

\* pick_and_sort, the branch taken when self.is_connected
PickConnected(x, y, cls_name, color) ==
    LET b == BinsGet(BinKey(cls_name, color)) IN
        MoveTo(TRUE, x, y, 0) \o MoveTo(TRUE, x, y, -10) \o Grip(1)
        \o MoveTo(TRUE, x, y, 0)
        \o << <<"RESOLVE", b[1], b[2]>> >>
        \o MoveTo(TRUE, b[1], b[2], 0) \o MoveTo(TRUE, b[1], b[2], -10)
        \o Grip(0) \o MoveTo(TRUE, b[1], b[2], 0)

\* pick_and_sort, the else branch
PickSimulated(x, y, cls_name, color) ==
    LET b == BinsGet(BinKey(cls_name, color)) IN
        << <<"RESOLVE", b[1], b[2]>>,
           <<"PRINT_PICK", cls_name, color, b[1], b[2]>> >>

IsWrite(e) == e[1] \in {"MOVE", "GRIP"}

Writes(trace) == SelectSeq(trace, IsWrite)

\* pick_and_sort writes to self.ser eight times
NumWrites == Len(Writes(PickConnected(0, 0, "PET", "blue")))

\* A write to self.ser raises (serial.SerialException: the port was closed
\* or the device went away).  failAt = 0: no write raises; failAt = k: the
\* k-th write of the call raises, and nothing after it runs.
Run(script, failAt) ==
    IF failAt = 0 \/ failAt > Len(Writes(script))
    THEN [trace |-> script, raised |-> FALSE]
    ELSE LET pos == CHOOSE i \in 1..Len(script) :
                      /\ IsWrite(script[i])
                      /\ Len(Writes(SubSeq(script, 1, i))) = failAt
         IN [trace |-> SubSeq(script, 1, pos - 1), raised |-> TRUE]

Resolved(trace) == SelectSeq(trace, LAMBDA e : e[1] = "RESOLVE")

DestOf(trace) ==
    IF Resolved(trace) = <<>> THEN <<>>
    ELSE <<Resolved(trace)[1][2], Resolved(trace)[1][3]>>

\* the record of one pick_and_sort(x, y, cls_name, color) call
PickAndSort(connected, x, y, cls_name, color, failAt) ==
    LET r == IF connected
             THEN Run(PickConnected(x, y, cls_name, color), failAt)
             ELSE Run(PickSimulated(x, y, cls_name, color), 0)
    IN [op |-> "pick_and_sort", connected |-> connected, x |-> x, y |-> y,
        z |-> 0, cls_name |-> cls_name, color |-> color,
        trace |-> r.trace, raised |-> r.raised, dest |-> DestOf(r.trace)]

\* the record of one move_to(x, y, z) call
MoveToCall(connected, x, y, z, failAt) ==
    LET r == Run(MoveTo(connected, x, y, z), IF connected THEN failAt ELSE 0)
    IN [op |-> "move_to", connected |-> connected, x |-> x, y |-> y,
        z |-> z, cls_name |-> "", color |-> "",
        trace |-> r.trace, raised |-> r.raised, dest |-> <<>>]

NoCall ==
    [op |-> "none", connected |-> FALSE, x |-> 0, y |-> 0, z |-> 0,
     cls_name |-> "", color |-> "", trace |-> <<>>, raised |-> FALSE,
     dest |-> <<>>]

\* the gripper after the GRIP commands of a trace reached the arm
GripperAfter(g, trace) ==
    LET grips == SelectSeq(trace, LAMBDA e : e[1] = "GRIP") IN
        IF grips = <<>> THEN g
        ELSE IF grips[Len(grips)][2] = 1 THEN "closed" ELSE "open"

\* a write on a port that close() has closed raises at once
FailChoices(connected, open) ==
    IF connected /\ ~open THEN {1} ELSE 0..NumWrites

\* the writes taken to raise inside the application: none, and the first
\* after GRIP 1
AppFailChoices(connected, open) == FailChoices(connected, open) \cap {0, 4}

-----------------------------------------------------------------------------
(* ColorDetector.                                                          *)
(* A pixel is a triple in the channel order of the array it sits in; the   *)
(* frames of cv2.VideoCapture are in B, G, R order.  A region of interest  *)
(* is [area, px]: area is roi.size > 0, and px lists <<count, pixel>> for  *)
(* the 50 x 50 image cv2.resize makes of it.  Python's None is <<>> here,  *)
(* and hash(roi.tobytes()) is the pixel content itself.                    *)

ResizedPixels == 2500

MinValue == 50

MinValidPixels == 50

BgrBlue == <<255, 0, 0>>

BgrRed == <<0, 0, 255>>

BgrGreen == <<0, 128, 0>>

BgrWhite == <<255, 255, 255>>

BgrBlack == <<0, 0, 0>>

BgrDimBlue == <<40, 0, 0>>

\* self.color_reference, in insertion order
color_reference ==
    << <<"White",  <<255, 255, 255>> >>,
       <<"Red",    <<255, 0, 0>> >>,
       <<"Green",  <<0, 128, 0>> >>,
       <<"Blue",   <<0, 0, 255>> >>,
       <<"Brown",  <<56, 28, 8>> >>,
       <<"Yellow", <<255, 255, 0>> >> >>

Max3(p) ==
    IF p[1] >= p[2] /\ p[1] >= p[3] THEN p[1]
    ELSE IF p[2] >= p[3] THEN p[2] ELSE p[3]

\* cv2.inRange(hsv_roi, [0, 0, 50], [180, 255, 255]): V = max(B, G, R) >= 50
InMask(p) == Max3(p) >= MinValue

\* preprocess_roi: None for an empty region, else the resized region
PreprocessRoi(roi) == IF ~roi.area THEN <<>> ELSE roi.px

RECURSIVE SumPx(_, _)
SumPx(px, ch) ==
    IF px = <<>> THEN 0
    ELSE px[1][1] * (IF ch = 0 THEN 1 ELSE px[1][2][ch]) + SumPx(Tail(px), ch)

\* pixels[mask_flat > 0]
ValidPixels(px) == SelectSeq(px, LAMBDA e : InMask(e[2]))

\* KMeans(n_clusters=1) centre (the mean), astype(int), clipped to 0..255
Centroid(valid) ==
    LET n == SumPx(valid, 0) IN
        <<SumPx(valid, 1) \div n, SumPx(valid, 2) \div n, SumPx(valid, 3) \div n>>

GetDominantColorNoCache(px, cache) ==
    IF px = <<>> THEN [color |-> <<>>, cache |-> cache, kmeans |-> FALSE]
    ELSE IF SumPx(ValidPixels(px), 0) < MinValidPixels
    THEN [color |-> <<>>, cache |-> cache, kmeans |-> FALSE]
    ELSE LET c == Centroid(ValidPixels(px)) IN
             [color |-> c, cache |-> [hash |-> px, color |-> c],
              kmeans |-> TRUE]

\* get_dominant_color(roi, mask), cache = [hash |-> last_roi_hash,
\* color |-> last_dominant_color]: the colour returned, the cache left and
\* whether KMeans was fitted
GetDominantColor(px, cache) ==
    IF px = <<>> THEN [color |-> <<>>, cache |-> cache, kmeans |-> FALSE]
    ELSE IF cache.hash = px /\ cache.color # <<>>
    THEN [color |-> cache.color, cache |-> cache, kmeans |-> FALSE]
    ELSE IF SumPx(ValidPixels(px), 0) < MinValidPixels
    THEN [color |-> <<>>, cache |-> cache, kmeans |-> FALSE]
    ELSE LET c == Centroid(ValidPixels(px)) IN
             [color |-> c, cache |-> [hash |-> px, color |-> c],
              kmeans |-> TRUE]

SqDist(a, b) ==
    (a[1] - b[1]) * (a[1] - b[1]) + (a[2] - b[2]) * (a[2] - b[2])
    + (a[3] - b[3]) * (a[3] - b[3])

\* find_closest_color: the first reference colour at the least distance
FindClosestColor(rgb_color) ==
    IF rgb_color = <<>> THEN "unknown"
    ELSE LET i == CHOOSE i \in 1..Len(color_reference) :
                    /\ \A j \in 1..Len(color_reference) :
                          SqDist(rgb_color, color_reference[i][2])
                          <= SqDist(rgb_color, color_reference[j][2])
                    /\ \A j \in 1..(i - 1) :
                          SqDist(rgb_color, color_reference[j][2])
                          > SqDist(rgb_color, color_reference[i][2])
         IN color_reference[i][1]

\* detect_color(roi): [label, cache, kmeans, raised]
DetectColor(roi, cache) ==
    IF ~roi.area
    THEN [label |-> "unknown", cache |-> cache, kmeans |-> FALSE,
          raised |-> FALSE]
    ELSE LET d == GetDominantColor(PreprocessRoi(roi), cache) IN
             [label |-> IF d.color = <<>> THEN "unknown"
                        ELSE FindClosestColor(d.color),
              cache |-> d.cache, kmeans |-> d.kmeans, raised |-> FALSE]

-----------------------------------------------------------------------------
(* Values the operations take arguments from                                *)

ClassLabels == {"PET", "HDPE", "PVC"}

ColorLabels == {"blue", "brown", "Blue", "Red", "unknown"}

Coords == {35, 120}

Heights == {0, -10}

BBoxes == {<<10, 10, 60, 60>>, <<100, 20, 141, 81>>, <<30, 30, 30, 50>>}

Contents ==
    { << <<ResizedPixels, BgrBlue>> >>,
      << <<ResizedPixels, BgrRed>> >>,
      << <<ResizedPixels, BgrGreen>> >>,
      << <<ResizedPixels, BgrWhite>> >>,
      << <<ResizedPixels, BgrDimBlue>> >>,
      << <<2000, BgrBlue>>, <<500, BgrWhite>> >>,
      << <<MinValidPixels, BgrBlue>>,
         <<ResizedPixels - MinValidPixels, BgrBlack>> >>,
      << <<MinValidPixels - 1, BgrBlue>>,
         <<ResizedPixels - MinValidPixels + 1, BgrBlack>> >> }

-----------------------------------------------------------------------------
(* The state WasteSortingApp.__init__ leaves, lines 84-100 and 124-233     *)

\* the record of a pass of sort_objects: how it ended, the detections it
\* found (size) and passed to pick_and_sort (attempted), whether a call
\* raised, and the calls of self.detector.detect and of detect_color it
\* made, of which lines 478-503 hold none
NoPass ==
    [outcome |-> "none", size |-> 0, attempted |-> 0, failed |-> FALSE,
     detect_calls |-> 0]

NoDetectCall == [op |-> "none", raised |-> FALSE]

AppAtRest ==
    /\ actuated = {}
    /\ tick_callbacks = 0
    /\ last_tick = "none"
    /\ detect_call = NoDetectCall
    /\ cam_released = FALSE
    /\ running_sorting = FALSE
    /\ latest_detections = <<>>
    /\ latest_frame = "None"
    /\ start_button = "normal"
    /\ stop_button = "disabled"
    /\ status_var = "Status: Idle"
    /\ troubleshoot_var = "Troubleshooting: No Issues"
    /\ sort_callbacks = 0
    /\ closed = FALSE
    /\ pc = "idle"
    /\ sort_idx = 0
    /\ inflight = 0
    /\ last_pass = NoPass
    /\ arm_positions = <<0, 0, 0>>

\* RoboticArm.__init__: serial.Serial opens, or raises and leaves
\* is_connected False and ser None
ArmInit ==
    /\ arm_is_connected \in BOOLEAN
    /\ ser_open = arm_is_connected
    /\ last_call = NoCall

\* ColorDetector.__init__
ColorInit ==
    /\ last_roi_hash = <<>>
    /\ last_dominant_color = <<>>

NoPipe ==
    [stage |-> "idle", cls_name |-> "", bbox |-> <<0, 0, 0, 0>>,
     px |-> <<>>, color |-> "", center |-> <<0, 0>>]

\* no CameraFeed constructed yet; env is what the machine offers: a camera
\* found by scan_cameras (scan) that opens in _init_camera (opens), the
\* clip test_video.mp4 (clip_exists, clip_opens, clip_len frames) and the
\* image test_image.jpg (image_exists, image_loads)
NoEnv ==
    [scan |-> FALSE, opens |-> FALSE, clip_exists |-> FALSE,
     clip_opens |-> FALSE, clip_len |-> 0, image_exists |-> FALSE,
     image_loads |-> FALSE]

NoFeed ==
    [op |-> "none", raised |-> FALSE, is_connected |-> FALSE, cap |-> "None",
     cap_open |-> FALSE, pos |-> 0, fallback_frame |-> FALSE, ret |-> "None",
     frame_no |-> 0, reads |-> 0, env |-> NoEnv]

NoCalls == [release |-> 0, close |-> 0]

NoTracker == [tracks |-> {}, next_id |-> 1, out |-> {}, evicted |-> {}]

NoColorCall ==
    [n |-> 0, via |-> "", area |-> FALSE, px |-> <<>>, label |-> "",
     kmeans |-> FALSE, raised |-> FALSE, prev_via |-> "",
     prev_area |-> FALSE, prev_px |-> <<>>, prev_label |-> ""]

UnitAtRest ==
    /\ feed = NoFeed
    /\ calls = NoCalls
    /\ tracker = NoTracker
    /\ color_call = NoColorCall

-----------------------------------------------------------------------------
(* SpecArm: RoboticArm called directly                                     *)

InitArm ==
    /\ ArmInit
    /\ ColorInit
    /\ AppAtRest
    /\ camera = "None"
    /\ detector = FALSE
    /\ pipe = NoPipe
    /\ UnitAtRest

ArmPickAndSort ==
    \E x \in Coords, y \in Coords, cls_name \in ClassLabels,
       color \in ColorLabels, failAt \in FailChoices(arm_is_connected, ser_open) :
        /\ last_call' = PickAndSort(arm_is_connected, x, y, cls_name, color, failAt)
        /\ UNCHANGED <<arm_is_connected, ser_open, appVars, colorVars, pipe, unitVars>>

ArmMoveTo ==
    \E x \in Coords, y \in Coords, z \in Heights,
       failAt \in FailChoices(arm_is_connected, ser_open) \cap {0, 1} :
        /\ last_call' = MoveToCall(arm_is_connected, x, y, z, failAt)
        /\ UNCHANGED <<arm_is_connected, ser_open, appVars, colorVars, pipe, unitVars>>

\* close: if self.is_connected and self.ser is not None: self.ser.close()
ArmCloseEffect ==
    /\ ser_open' = IF arm_is_connected THEN FALSE ELSE ser_open
    /\ last_call' = [NoCall EXCEPT !.op = "close"]

ArmClose ==
    /\ ArmCloseEffect
    /\ UNCHANGED <<arm_is_connected, appVars, colorVars, pipe, unitVars>>

NextArm == ArmPickAndSort \/ ArmMoveTo \/ ArmClose

SpecArm == InitArm /\ [][NextArm]_vars

-----------------------------------------------------------------------------
(* SpecPipe: one detection (cls_name, conf, bbox) through the body of the  *)
(* loop of detect_objects (lines 428-441) and of sort_objects (488-493)    *)

InitPipe ==
    /\ ArmInit
    /\ ColorInit
    /\ AppAtRest
    /\ camera = "fallback"
    /\ detector = TRUE
    /\ pipe = NoPipe
    /\ UnitAtRest

\* an object of class cls_name in box bbox of a frame whose crop there
\* resizes to px
PipeDetection ==
    /\ pipe.stage \in {"idle", "sorted"}
    /\ \E cls_name \in ClassLabels, bbox \in BBoxes, px \in Contents :
           pipe' = [NoPipe EXCEPT !.stage = "detected", !.cls_name = cls_name,
                                  !.bbox = bbox, !.px = px]
    /\ UNCHANGED <<armVars, appVars, colorVars>>
    /\ UNCHANGED unitVars

\* roi = frame[y1:y2, x1:x2]; roi.size
RoiSize(bbox) ==
    IF bbox[3] > bbox[1] /\ bbox[4] > bbox[2]
    THEN (bbox[3] - bbox[1]) * (bbox[4] - bbox[2]) * 3 ELSE 0

\* preprocess_roi of an empty crop returns (None, None) and
\* detect_color(None) raises AttributeError at roi.size
ColorOfCropUnchecked(bbox, px, cache) ==
    LET roi == [area |-> RoiSize(bbox) > 0, px |-> px] IN
        IF RoiSize(bbox) > 0
        THEN DetectColor([area |-> TRUE, px |-> PreprocessRoi(roi)], cache)
        ELSE [label |-> "", cache |-> cache, kmeans |-> FALSE,
              raised |-> TRUE]

\* detect_objects, lines 431-438: the colour of the crop
ColorOfCrop(bbox, px, cache) ==
    LET roi == [area |-> RoiSize(bbox) > 0, px |-> px] IN
        IF RoiSize(bbox) > 0
        THEN DetectColor([area |-> TRUE, px |-> PreprocessRoi(roi)], cache)
        ELSE [label |-> "unknown", cache |-> cache, kmeans |-> FALSE,
              raised |-> FALSE]

PipeClassify ==
    /\ pipe.stage = "detected"
    /\ LET r == ColorOfCrop(pipe.bbox, pipe.px,
                            [hash |-> last_roi_hash, color |-> last_dominant_color])
       IN /\ pipe' = [pipe EXCEPT !.stage = "classified", !.color = r.label]
          /\ last_roi_hash' = r.cache.hash
          /\ last_dominant_color' = r.cache.color
    /\ UNCHANGED <<armVars, appVars>>
    /\ UNCHANGED unitVars

\* sort_objects, lines 489-491
Center(bbox) == <<(bbox[1] + bbox[3]) \div 2, (bbox[2] + bbox[4]) \div 2>>

PipeSort ==
    /\ pipe.stage = "classified"
    /\ \E failAt \in FailChoices(arm_is_connected, ser_open) :
        /\ last_call' = PickAndSort(arm_is_connected, Center(pipe.bbox)[1],
                                    Center(pipe.bbox)[2], pipe.cls_name,
                                    pipe.color, failAt)
    /\ pipe' = [pipe EXCEPT !.stage = "sorted", !.center = Center(pipe.bbox)]
    /\ UNCHANGED <<arm_is_connected, ser_open, appVars, colorVars>>
    /\ UNCHANGED unitVars

NextPipe == PipeDetection \/ PipeClassify \/ PipeSort

SpecPipe == InitPipe /\ [][NextPipe]_vars

-----------------------------------------------------------------------------
(* Python values that travel through detection tuples.  A value carries    *)
(* its type, so that unpacking and map(int, ...) can fail as they do in    *)
(* Python; a tuple, a string or an array is the sequence of its items.     *)

Val(t, s, n, b) == [t |-> t, s |-> s, n |-> n, b |-> b]

Str(s) == Val("str", s, 0, <<>>)

Num(n) == Val("num", "", n, <<>>)

Box(b) == Val("box", "", 0, b)

Chr == Val("chr", "", 0, <<>>)

Row == Val("row", "", 0, <<>>)

-----------------------------------------------------------------------------
(* ObjectDetector.detect.  What the YOLO model finds in a frame is a       *)
(* sequence of boxes [name, bbox, conf, px]: conf in percent, px the       *)
(* content of the frame inside bbox.                                       *)

MaxBoxes == 2

ConfThreshold == 50

RawBoxes ==
    { [name |-> "PET",  bbox |-> <<10, 10, 60, 60>>,   conf |-> 90,
       px |-> << <<ResizedPixels, BgrBlue>> >>],
      [name |-> "HDPE", bbox |-> <<100, 20, 141, 81>>, conf |-> 60,
       px |-> << <<ResizedPixels, BgrRed>> >>],
      [name |-> "PET",  bbox |-> <<5, 5, 25, 8>>,      conf |-> 30,
       px |-> << <<ResizedPixels, BgrWhite>> >>] }

\* the sequences of at most n distinct elements of S
RECURSIVE SeqsUpTo(_, _)
SeqsUpTo(S, n) ==
    IF n = 0 THEN {<<>>}
    ELSE LET shorter == SeqsUpTo(S, n - 1) IN
             shorter \cup UNION {{Append(q, e) :
                                     e \in {b \in S : \A i \in 1..Len(q) : q[i] # b}} :
                                  q \in shorter}

\* results = self.model(img): the boxes lines 37-54 get through, something
\* inside the try of lines 27-71 raising then or not, or boxes None
ModelResults ==
    {[raises |-> r, none |-> n, boxes |-> b] :
        r \in BOOLEAN, n \in {FALSE}, b \in SeqsUpTo(RawBoxes, MaxBoxes)}
    \cup {[raises |-> FALSE, none |-> TRUE, boxes |-> <<>>]}

\* frame[y1:y2, x1:x2] as the sequence of its rows
RoiRows(bbox) ==
    [i \in 1..(IF bbox[4] > bbox[2] /\ bbox[3] > bbox[1]
               THEN bbox[4] - bbox[2] ELSE 0) |-> Row]

\* the string "unknown" as the sequence of its characters
UnknownChars == [i \in 1..7 |-> Chr]

BoxItems(bbox) == [i \in 1..4 |-> Num(bbox[i])]

RECURSIVE MapSeq(_, _)
MapSeq(Op(_), q) ==
    IF q = <<>> THEN <<>> ELSE <<Op(q[1])>> \o MapSeq(Op, Tail(q))

\* detected_objects.append((class_name, (x1, y1, x2, y2), confidence))
Detected(box) == <<Str(box.name), Box(box.bbox), Num(box.conf)>>

\* detect without the except of lines 73-75: what was collected is returned
DetectNoExcept(res) ==
    IF res.none THEN <<>>
    ELSE LET kept == SelectSeq(res.boxes, LAMBDA b : b.conf >= ConfThreshold)
             low == SelectSeq(res.boxes,
                        LAMBDA b : b.name = "unknown" \/ b.conf < ConfThreshold)
         IN IF kept = <<>> /\ low # <<>>
            THEN <<UnknownChars, BoxItems(low[1].bbox), RoiRows(low[1].bbox)>>
            ELSE MapSeq(Detected, kept)

\* detect(frame): the sequence of the items of the value returned, which
\* is the list detected_objects, [] when anything raised, or the tuple
\* ("unknown", bbox, roi) of the first box below the threshold
Detect(res) ==
    IF res.raises \/ res.none THEN <<>>
    ELSE LET kept == SelectSeq(res.boxes, LAMBDA b : b.conf >= ConfThreshold)
             low == SelectSeq(res.boxes,
                        LAMBDA b : b.name = "unknown" \/ b.conf < ConfThreshold)
         IN IF kept = <<>> /\ low # <<>>
            THEN <<UnknownChars, BoxItems(low[1].bbox), RoiRows(low[1].bbox)>>
            ELSE MapSeq(Detected, kept)

\* A detector that returns its triples as (class_name, confidence, bbox),
\* the order spec section 6 gives and detect_objects unpacks
DetectAsDocumented(res) ==
    LET out == Detect(res) IN
        IF out # <<>> /\ out[1] = UnknownChars THEN out
        ELSE MapSeq(LAMBDA d : <<d[1], d[3], d[2]>>, out)

\* ObjectDetector.get_class_names: line 38 of Mark_II___Hit_400.py calls it
\* and no file under src/ defines it; it is taken to return the class names
\* of the model without raising
get_class_names == [raises |-> FALSE, names |-> {"PET", "HDPE"}]

-----------------------------------------------------------------------------
(* CameraFeed.get_frame: the frames a call may return                      *)

\* a connected camera may fail to read; the fallback clip or image does not;
\* self.camera.get_frame() with self.camera None raises AttributeError
GetFrame(cam) ==
    IF cam = "None" THEN {"AttributeError"}
    ELSE IF cam = "live" THEN {"frame", "None"} ELSE {"frame"}

CameraNeverMissing == FALSE

\* "if self.camera is None" at the head of detect_objects and update_frame
CameraMissing == camera = "None"

\* an exception left a callback because self.camera is None
AttributeErrorOn(missing) ==
    IF missing THEN [NoPass EXCEPT !.outcome = "AttributeError"] ELSE last_pass

-----------------------------------------------------------------------------
(* WasteSortingApp.detect_objects                                          *)

\* the content of the frame inside bbox
FrameCrop(bbox) ==
    IF \E r \in RawBoxes : r.bbox = bbox
    THEN (CHOOSE r \in RawBoxes : r.bbox = bbox).px
    ELSE << <<ResizedPixels, BgrBlack>> >>

\* lines 428-441, from detection idx on: x1, y1, x2, y2 = map(int, bbox)
\* raises unless bbox is a sequence of four numbers; otherwise the colour
\* of the crop is appended to the detection
RECURSIVE ProcessDetections(_, _, _)
ProcessDetections(dets, idx, cache) ==
    IF idx > Len(dets) THEN [dets |-> dets, cache |-> cache, raised |-> FALSE]
    ELSE IF dets[idx][3].t # "box"
    THEN [dets |-> dets, cache |-> cache, raised |-> TRUE]
    ELSE LET c == ColorOfCrop(dets[idx][3].b, FrameCrop(dets[idx][3].b), cache) IN
             ProcessDetections(
                 [dets EXCEPT ![idx] = <<dets[idx][1], dets[idx][2],
                                         dets[idx][3], Str(c.label)>>],
                 idx + 1, c.cache)

\* str(n) of a count, as the f-string of line 454 formats it
Decimal(n) ==
    CASE n = 0 -> "0" [] n = 1 -> "1" [] n = 2 -> "2" [] n = 3 -> "3"
      [] n = 4 -> "4" [] OTHER -> "many"

\* lines 409-418: the items of length 3 of the detection result
ValidDetections(result) == SelectSeq(result, LAMBDA d : Len(d) = 3)

MainloopDispatchesAnytime == ~closed

MainloopAfterDestroy == pc = "idle"

\* root.mainloop() runs one callback at a time, and none once on_closing has
\* destroyed the root window
Mainloop == ~closed /\ pc = "idle"

DetectObjectsWith(outputs) ==
    /\ Mainloop
    /\ last_pass' = AttributeErrorOn(~CameraMissing /\ detector
                                      /\ camera = "None")
    /\ IF CameraMissing
       THEN /\ status_var' = "Status: Camera Not Initialized"
            /\ UNCHANGED <<troubleshoot_var, latest_detections, actuated,
                           detect_call, latest_frame, colorVars>>
       ELSE IF ~detector
       THEN /\ troubleshoot_var' = "Troubleshooting: Object Detector Not Initialized"
            /\ status_var' = "Status: Error - Detector Not Initialized"
            /\ UNCHANGED <<latest_detections, actuated, detect_call,
                           latest_frame, colorVars>>
       ELSE \E frame \in GetFrame(camera) :
            IF frame = "AttributeError"
            THEN UNCHANGED <<status_var, troubleshoot_var, latest_detections,
                             actuated, detect_call, latest_frame, colorVars>>
            ELSE IF frame = "None"
            THEN /\ status_var' = "Status: No Frame Available"
                 /\ UNCHANGED <<troubleshoot_var, latest_detections, actuated,
                                detect_call, latest_frame, colorVars>>
            ELSE \E call \in outputs :
                 \E detection_result \in {call.returned} :
                 \E detections \in {ValidDetections(detection_result)} :
                 \E r \in {ProcessDetections(detections, 1,
                                [hash |-> last_roi_hash,
                                 color |-> last_dominant_color])} :
                    /\ latest_detections' = r.dets
                    /\ actuated' = {}
                    /\ detect_call' =
                           [op |-> "detect", raised |-> call.raised]
                    /\ latest_frame' =
                           IF \E i \in 1..Len(r.dets) : Len(r.dets[i]) = 4
                           THEN "annotated" ELSE "frame"
                    /\ last_roi_hash' = r.cache.hash
                    /\ last_dominant_color' = r.cache.color
                    /\ troubleshoot_var' =
                           IF detections = <<>>
                           THEN "Troubleshooting: No valid objects detected"
                           ELSE IF r.raised THEN troubleshoot_var
                           ELSE "Troubleshooting: Detected "
                                \o Decimal(Len(detections)) \o " objects"
                    /\ UNCHANGED status_var
    /\ UNCHANGED <<camera, detector, cam_released, running_sorting,
                   start_button, stop_button, sort_callbacks, closed, pc,
                   sort_idx, inflight, arm_positions,
                   armVars, pipe, unitVars,
                   tick_callbacks, last_tick>>

\* what self.detector.detect(frame) may return, and whether it is the []
\* of line 75
DetectOutputs ==
    {[raised |-> res.raises, returned |-> Detect(res)] : res \in ModelResults}

DocumentedOutputs ==
    {[raised |-> res.raises, returned |-> DetectAsDocumented(res)] :
        res \in ModelResults}

\* the Detect button, with ObjectDetector.detect of object_detection.py
DetectObjects == DetectObjectsWith(DetectOutputs)

\* the Detect button, with a detector whose triples come in either order
DetectObjectsEitherOrder ==
    DetectObjectsWith(DetectOutputs \cup DocumentedOutputs)

-----------------------------------------------------------------------------
(* WasteSortingApp: start_sorting, stop_sorting, sort_objects              *)

MaxCallbacks == 2

\* stop_sorting without the button updates of lines 474-475
StopSortingKeepsButtons ==
    /\ running_sorting' = FALSE
    /\ status_var' = "Status: Idle"
    /\ UNCHANGED <<start_button, stop_button>>

\* stop_sorting
StopSortingEffect ==
    /\ running_sorting' = FALSE
    /\ start_button' = "normal"
    /\ stop_button' = "disabled"
    /\ status_var' = "Status: Idle"

SortObjectsEntryUnchecked(running) ==
    IF latest_detections = <<>>
    THEN /\ troubleshoot_var' = "Troubleshooting: No objects to sort"
         /\ StopSortingEffect
         /\ last_pass' = [NoPass EXCEPT !.outcome = "empty"]
         /\ UNCHANGED <<pc, sort_idx>>
    ELSE /\ pc' = "sort"
         /\ sort_idx' = 1
         /\ last_pass' = [NoPass EXCEPT !.outcome = "running",
                                        !.size = Len(latest_detections)]
         /\ UNCHANGED <<troubleshoot_var, running_sorting, start_button,
                        stop_button, status_var>>

\* sort_objects up to the head of its loop, entered with sorting on or off
SortObjectsEntry(running) ==
    IF ~running
    THEN /\ UNCHANGED <<pc, sort_idx, last_pass, troubleshoot_var>>
         /\ UNCHANGED <<running_sorting, start_button, stop_button, status_var>>
    ELSE IF latest_detections = <<>>
    THEN /\ troubleshoot_var' = "Troubleshooting: No objects to sort"
         /\ StopSortingEffect
         /\ last_pass' = [NoPass EXCEPT !.outcome = "empty"]
         /\ UNCHANGED <<pc, sort_idx>>
    ELSE /\ pc' = "sort"
         /\ sort_idx' = 1
         /\ last_pass' = [NoPass EXCEPT !.outcome = "running",
                                        !.size = Len(latest_detections)]
         /\ UNCHANGED <<troubleshoot_var, running_sorting, start_button,
                        stop_button, status_var>>

StartSortingUnchecked ==
    /\ Mainloop
    /\ start_button = "normal"
    /\ sort_callbacks < MaxCallbacks
    /\ pc' = IF latest_detections = <<>> THEN pc ELSE "sort"
    /\ sort_idx' = 1
    /\ last_pass' = [NoPass EXCEPT !.outcome = "running",
                                   !.size = Len(latest_detections)]
    /\ running_sorting' = TRUE
    /\ start_button' = "disabled"
    /\ stop_button' = "normal"
    /\ status_var' = "Status: Sorting"
    /\ UNCHANGED <<camera, detector, cam_released, latest_detections,
                   latest_frame, sort_callbacks, closed, inflight,
                   arm_positions, armVars, colorVars, pipe, unitVars,
                   troubleshoot_var, actuated, tick_callbacks, last_tick,
                   detect_call>>

\* the Start Sorting button
StartSorting ==
    /\ Mainloop
    /\ start_button = "normal"
    /\ sort_callbacks < MaxCallbacks
    /\ IF latest_detections = <<>>
       THEN /\ last_pass' = [NoPass EXCEPT !.outcome = "start rejected"]
            /\ UNCHANGED <<running_sorting, start_button, stop_button,
                           status_var, pc, sort_idx>>
       ELSE /\ running_sorting' = TRUE
            /\ start_button' = "disabled"
            /\ stop_button' = "normal"
            /\ status_var' = "Status: Sorting"
            /\ pc' = "sort"
            /\ sort_idx' = 1
            /\ last_pass' = [NoPass EXCEPT !.outcome = "running",
                                           !.size = Len(latest_detections)]
    /\ UNCHANGED <<camera, detector, cam_released, latest_detections,
                   latest_frame, troubleshoot_var, sort_callbacks, closed,
                   inflight, arm_positions, armVars, colorVars, pipe, unitVars,
                   actuated, tick_callbacks, last_tick, detect_call>>

\* the Stop Sorting button
StopSorting ==
    /\ Mainloop
    /\ stop_button = "normal"
    /\ StopSortingEffect
    /\ UNCHANGED <<camera, detector, cam_released, latest_detections,
                   latest_frame, troubleshoot_var, sort_callbacks, closed, pc,
                   sort_idx, inflight, last_pass, arm_positions,
                   armVars, colorVars, pipe, unitVars,
                   actuated, tick_callbacks, last_tick, detect_call>>

\* a callback scheduled by root.after(1000, self.sort_objects) fires
SortObjectsCallback ==
    /\ Mainloop
    /\ sort_callbacks > 0
    /\ sort_callbacks' = sort_callbacks - 1
    /\ SortObjectsEntry(running_sorting)
    /\ UNCHANGED <<camera, detector, cam_released, latest_detections,
                   latest_frame, closed, inflight, arm_positions,
                   armVars, colorVars, pipe, unitVars,
                   actuated, tick_callbacks, last_tick, detect_call>>

\* line 488-493: the loop unpacks detection sort_idx into
\* (cls_name, conf, bbox, color), converts bbox and enters pick_and_sort
SortObjectsUnpack ==
    /\ ~closed
    /\ pc = "sort"
    /\ sort_idx <= Len(latest_detections)
    /\ LET d == latest_detections[sort_idx] IN
         IF Len(d) # 4 \/ d[3].t # "box"
         THEN /\ pc' = "idle"
              /\ last_pass' = [last_pass EXCEPT !.outcome = "raised"]
              /\ UNCHANGED <<inflight, actuated>>
         ELSE /\ pc' = "pick"
              /\ inflight' = inflight + 1
              /\ actuated' = actuated \cup {sort_idx}
              /\ last_pass' = [last_pass EXCEPT !.attempted = @ + 1]
    /\ UNCHANGED <<camera, detector, cam_released, running_sorting,
                   latest_detections, latest_frame, start_button, stop_button,
                   status_var, troubleshoot_var, sort_callbacks, closed,
                   sort_idx, arm_positions, armVars, colorVars,
                   pipe, unitVars,
                   tick_callbacks, last_tick, detect_call>>

\* line 493: self.arm.pick_and_sort(center_x, center_y, cls_name, color)
\* returns or raises
SortObjectsPick ==
    /\ pc = "pick"
    /\ \E d \in {latest_detections[sort_idx]} :
         \E c \in {Center(d[3].b)} :
         \E failAt \in AppFailChoices(arm_is_connected, ser_open) :
            /\ last_call' = PickAndSort(arm_is_connected, c[1], c[2],
                                        d[1].s, d[4].s, failAt)
    /\ inflight' = inflight - 1
    /\ IF last_call'.raised
       THEN /\ pc' = "idle"
            /\ last_pass' = [last_pass EXCEPT !.outcome = "raised",
                                              !.failed = TRUE]
            /\ UNCHANGED sort_idx
       ELSE /\ pc' = "sort"
            /\ sort_idx' = sort_idx + 1
            /\ UNCHANGED last_pass
    /\ UNCHANGED <<camera, detector, cam_released, running_sorting,
                   latest_detections, latest_frame, start_button, stop_button,
                   status_var, troubleshoot_var, sort_callbacks, closed,
                   arm_positions, arm_is_connected, ser_open,
                   colorVars, pipe, unitVars,
                   actuated, tick_callbacks, last_tick, detect_call>>

\* lines 496-503: after the loop
SortObjectsFinish ==
    /\ pc = "sort"
    /\ sort_idx > Len(latest_detections)
    /\ latest_detections' = <<>>
    /\ actuated' = {}
    /\ pc' = "idle"
    /\ IF camera = "None"
       THEN /\ last_pass' = [last_pass EXCEPT !.outcome = "AttributeError"]
            /\ UNCHANGED <<latest_frame, sort_callbacks>>
       ELSE /\ latest_frame' \in GetFrame(camera)
            /\ sort_callbacks' = IF running_sorting THEN sort_callbacks + 1
                                 ELSE sort_callbacks
            /\ last_pass' = [last_pass EXCEPT !.outcome = "done"]
    /\ UNCHANGED <<camera, detector, cam_released, running_sorting,
                   start_button, stop_button, status_var, troubleshoot_var,
                   closed, sort_idx, inflight, arm_positions,
                   armVars, colorVars, pipe, unitVars,
                   tick_callbacks, last_tick, detect_call>>

-----------------------------------------------------------------------------
(* WasteSortingApp: update_frame, update_arm_position, on_closing          *)

TickAfterReturnsEarly(path) ==
    IF path \in {"AttributeError", "no camera"} THEN tick_callbacks - 1
    ELSE tick_callbacks

\* the update_frame callbacks pending when update_frame has run: it was one
\* of them and schedules one at line 521 or line 529, unless
\* self.camera.get_frame() raised
TickAfter(path) ==
    IF path = "AttributeError" THEN tick_callbacks - 1 ELSE tick_callbacks

\* update_frame
UpdateFrameBody ==
    /\ Mainloop
    /\ tick_callbacks > 0
    /\ last_pass' = AttributeErrorOn(~CameraMissing /\ camera = "None"
                                      /\ latest_detections = <<>>)
    /\ IF CameraMissing
       THEN /\ status_var' = "Status: Camera Not Initialized"
            /\ tick_callbacks' = TickAfter("no camera")
            /\ UNCHANGED latest_frame
       ELSE /\ IF latest_detections = <<>>
               THEN \E frame \in GetFrame(camera) :
                       /\ latest_frame' = IF frame = "AttributeError"
                                          THEN latest_frame ELSE frame
                       /\ tick_callbacks' =
                              TickAfter(IF frame \in {"AttributeError", "None"}
                                        THEN frame ELSE "refreshed")
               ELSE /\ tick_callbacks' = TickAfter("kept")
                    /\ UNCHANGED latest_frame
            /\ UNCHANGED status_var
    /\ UNCHANGED <<camera, detector, cam_released, running_sorting,
                   latest_detections, start_button, stop_button,
                   troubleshoot_var, sort_callbacks, closed, pc, sort_idx,
                   inflight, arm_positions, armVars,
                   colorVars, pipe, unitVars,
                   actuated, detect_call>>

\* the 10 ms tick
UpdateFrame ==
    /\ UpdateFrameBody
    /\ UNCHANGED last_tick

\* the 10 ms tick, the path it took recorded
UpdateFrameObserved ==
    /\ UpdateFrameBody
    /\ last_tick' = IF CameraMissing THEN "no camera"
                    ELSE IF latest_detections # <<>> THEN "kept"
                    ELSE IF latest_frame' = "None" THEN "no frame"
                    ELSE "refreshed"


ArmPositions == {<<50, -20, -10>>}

\* an arm-position slider moves: update_arm_position up to the move_to call
UpdateArmPosition ==
    /\ Mainloop
    /\ \E pos \in ArmPositions : arm_positions' = pos
    /\ IF arm_is_connected
       THEN pc' = "move" /\ inflight' = inflight + 1
       ELSE UNCHANGED <<pc, inflight>>
    /\ UNCHANGED <<camera, detector, cam_released, running_sorting,
                   latest_detections, latest_frame, start_button, stop_button,
                   status_var, troubleshoot_var, sort_callbacks, closed,
                   sort_idx, last_pass, armVars, colorVars, pipe, unitVars,
                   actuated, tick_callbacks, last_tick, detect_call>>

\* line 386: self.arm.move_to(x, y, z) returns or raises
UpdateArmPositionMove ==
    /\ pc = "move"
    /\ \E failAt \in AppFailChoices(arm_is_connected, ser_open) \cap {0, 1} :
          last_call' = MoveToCall(arm_is_connected, arm_positions[1],
                                  arm_positions[2], arm_positions[3], failAt)
    /\ pc' = "idle"
    /\ inflight' = inflight - 1
    /\ UNCHANGED <<camera, detector, cam_released, running_sorting,
                   latest_detections, latest_frame, start_button, stop_button,
                   status_var, troubleshoot_var, sort_callbacks, closed,
                   sort_idx, last_pass, arm_positions,
                   arm_is_connected, ser_open, colorVars, pipe, unitVars,
                   actuated, tick_callbacks, last_tick, detect_call>>

\* the window is closed
OnClosing ==
    /\ Mainloop
    /\ cam_released' = (camera # "None")
    /\ ser_open' = FALSE
    /\ closed' = TRUE
    /\ UNCHANGED <<camera, detector, running_sorting, latest_detections,
                   latest_frame, start_button, stop_button, status_var,
                   troubleshoot_var, sort_callbacks, pc, sort_idx, inflight,
                   last_pass, arm_positions, arm_is_connected,
                   last_call, colorVars, pipe, unitVars,
                   actuated, tick_callbacks, last_tick, detect_call>>

-----------------------------------------------------------------------------
(* The application                                                         *)

\* WasteSortingApp.__init__: the camera opens live, falls back to the clip
\* or the image, or raises; the detector loads or raises; line 100 runs
\* update_frame once
Init ==
    /\ camera \in {"None", "live", "fallback"}
    /\ detector \in {loads /\ ~get_class_names.raises : loads \in BOOLEAN}
    /\ ArmInit
    /\ ColorInit
    /\ cam_released = FALSE
    /\ running_sorting = FALSE
    /\ latest_detections = <<>>
    /\ latest_frame \in (IF camera = "None" THEN {"None"} ELSE GetFrame(camera))
    /\ start_button = "normal"
    /\ stop_button = "disabled"
    /\ status_var = IF camera = "None" THEN "Status: Camera Not Initialized"
                    ELSE "Status: Idle"
    /\ troubleshoot_var = "Troubleshooting: No Issues"
    /\ sort_callbacks = 0
    /\ closed = FALSE
    /\ pc = "idle"
    /\ sort_idx = 0
    /\ inflight = 0
    /\ last_pass = NoPass
    /\ arm_positions = <<0, 0, 0>>
    /\ pipe = NoPipe
    /\ UnitAtRest
    /\ actuated = {}
    /\ tick_callbacks = 1
    /\ last_tick = "none"
    /\ detect_call = NoDetectCall

Next ==
    \/ DetectObjects
    \/ StartSorting
    \/ StopSorting
    \/ SortObjectsUnpack
    \/ UpdateFrame
    \/ UpdateArmPosition
    \/ UpdateArmPositionMove
    \/ OnClosing

Spec == Init /\ [][Next]_vars

NextSort ==
    \/ DetectObjectsEitherOrder
    \/ StartSorting
    \/ StopSorting
    \/ SortObjectsCallback
    \/ SortObjectsUnpack
    \/ SortObjectsPick
    \/ SortObjectsFinish
    \/ UpdateFrame
    \/ UpdateArmPosition
    \/ UpdateArmPositionMove
    \/ OnClosing

SpecSort == Init /\ [][NextSort]_vars

NextTick ==
    \/ DetectObjects
    \/ StartSorting
    \/ StopSorting
    \/ SortObjectsUnpack
    \/ UpdateFrameObserved
    \/ UpdateArmPosition
    \/ UpdateArmPositionMove
    \/ OnClosing

SpecTick == Init /\ [][NextTick]_vars

-----------------------------------------------------------------------------
(* CameraFeed (camera_feed.py).  cap is the cv2.VideoCapture held in       *)
(* self.cap: "None", "live" (a camera) or "clip" (the fallback video);     *)
(* cap_open is cap.isOpened(); pos is the read position in the clip;       *)
(* fallback_frame is "self.fallback_frame is not None".  ret and frame_no  *)
(* are what the last get_frame returned: "None", a "live" frame, the       *)
(* "image", or frame frame_no of the "clip".                               *)

MaxClipLen == 2

MaxReads == 3

MaxCalls == 2

\* an opened clip holds at least one frame
Envs ==
    {e \in [scan : BOOLEAN, opens : BOOLEAN, clip_exists : BOOLEAN,
            clip_opens : BOOLEAN, clip_len : 0..MaxClipLen,
            image_exists : BOOLEAN, image_loads : BOOLEAN] :
        /\ e.opens => e.scan
        /\ e.clip_opens => e.clip_exists
        /\ e.clip_len > 0 <=> e.clip_opens
        /\ e.image_loads => e.image_exists}

\* _load_fallback_image
LoadFallbackImage(f) ==
    IF f.env.image_exists /\ f.env.image_loads
    THEN [f EXCEPT !.fallback_frame = TRUE]
    ELSE [f EXCEPT !.raised = TRUE]

InitFallbackImageFirst(f) ==
    IF f.env.image_exists /\ f.env.image_loads
    THEN [f EXCEPT !.fallback_frame = TRUE]
    ELSE IF f.env.clip_exists /\ f.env.clip_opens
    THEN [f EXCEPT !.cap = "clip", !.cap_open = TRUE, !.pos = 0, !.reads = 0]
    ELSE [f EXCEPT !.raised = TRUE]

\* _init_fallback
InitFallback(f) ==
    IF f.env.clip_exists
    THEN LET g == [f EXCEPT !.cap = "clip", !.cap_open = f.env.clip_opens,
                            !.pos = 0, !.reads = 0]
         IN IF g.cap_open THEN g ELSE LoadFallbackImage(g)
    ELSE LoadFallbackImage(f)

\* _init_camera(camera_id): the camera opens or does not
InitCamera(f, opens) ==
    LET g == [f EXCEPT !.cap = "live", !.cap_open = opens, !.pos = 0,
                       !.reads = 0]
    IN IF opens THEN [g EXCEPT !.is_connected = TRUE]
       ELSE InitFallback([g EXCEPT !.is_connected = FALSE])

\* CameraFeed.__init__ on a machine offering env
Construct(env) ==
    LET f == [NoFeed EXCEPT !.op = "__init__", !.env = env] IN
        IF ~env.scan THEN InitFallback(f) ELSE InitCamera(f, env.opens)

\* self.cap.read(): [f, ret, frame_no]; a read of None raises
CapRead(f) ==
    IF f.cap = "clip" /\ f.cap_open /\ f.pos < f.env.clip_len
    THEN [f |-> [f EXCEPT !.pos = f.pos + 1], ret |-> "clip",
          frame_no |-> f.pos + 1]
    ELSE [f |-> f, ret |-> "None", frame_no |-> 0]

\* self.cap.set(cv2.CAP_PROP_POS_FRAMES, 0)
CapRewind(f) == IF f.cap = "clip" /\ f.cap_open THEN [f EXCEPT !.pos = 0] ELSE f

Returned(f, ret, frame_no) ==
    [f EXCEPT !.op = "get_frame", !.raised = FALSE, !.ret = ret,
              !.frame_no = frame_no, !.reads = f.reads + 1]

GetFrameNoRewind(f, ok) ==
    IF f.is_connected
    THEN Returned(f, IF f.cap_open /\ ok THEN "live" ELSE "None", 0)
    ELSE IF f.fallback_frame THEN Returned(f, "image", 0)
    ELSE LET r == CapRead(f) IN Returned(r.f, r.ret, r.frame_no)

GetFrameDisconnects(f, ok) ==
    IF f.is_connected
    THEN IF f.cap_open /\ ok THEN Returned(f, "live", 0)
         ELSE Returned([f EXCEPT !.is_connected = FALSE], "None", 0)
    ELSE IF f.fallback_frame THEN Returned(f, "image", 0)
    ELSE LET r == CapRead(f) IN
             IF r.ret # "None" THEN Returned(r.f, r.ret, r.frame_no)
             ELSE LET r2 == CapRead(CapRewind(r.f)) IN
                      Returned(r2.f, r2.ret, r2.frame_no)

\* get_frame; ok: a read of the live camera yields a frame
GetFrameOp(f, ok) ==
    IF f.is_connected
    THEN Returned(f, IF f.cap_open /\ ok THEN "live" ELSE "None", 0)
    ELSE IF f.fallback_frame THEN Returned(f, "image", 0)
    ELSE LET r == CapRead(f) IN
             IF r.ret # "None" THEN Returned(r.f, r.ret, r.frame_no)
             ELSE LET r2 == CapRead(CapRewind(r.f)) IN
                      Returned(r2.f, r2.ret, r2.frame_no)

ReleaseUnguarded(f) ==
    IF f.cap = "None" \/ ~f.cap_open
    THEN [f EXCEPT !.op = "release", !.raised = TRUE]
    ELSE [f EXCEPT !.op = "release", !.raised = FALSE, !.cap_open = FALSE]

\* release
Release(f) ==
    IF f.cap # "None"
    THEN [f EXCEPT !.op = "release", !.raised = FALSE, !.cap_open = FALSE]
    ELSE [f EXCEPT !.op = "release", !.raised = FALSE]

\* set_camera(camera_id) with camera_id one of available_cameras
SetCamera(f, opens) ==
    InitCamera([f EXCEPT !.op = "set_camera", !.raised = FALSE], opens)

\* the CameraFeed object exists: its construction returned
FeedExists == feed.op # "none" /\ ~(feed.op = "__init__" /\ feed.raised)

-----------------------------------------------------------------------------
(* SpecCam: CameraFeed and RoboticArm called directly                      *)

InitCam ==
    /\ ArmInit
    /\ ColorInit
    /\ AppAtRest
    /\ camera = "None"
    /\ detector = FALSE
    /\ pipe = NoPipe
    /\ feed \in {[NoFeed EXCEPT !.env = e] : e \in Envs}
    /\ calls = NoCalls
    /\ tracker = NoTracker
    /\ color_call = NoColorCall

CamConstruct ==
    /\ feed.op = "none"
    /\ feed' = Construct(feed.env)
    /\ UNCHANGED <<calls, tracker, color_call, armVars, appVars, colorVars, pipe>>

CamGetFrame ==
    /\ FeedExists
    /\ feed.reads < MaxReads
    /\ \E ok \in BOOLEAN : feed' = GetFrameOp(feed, ok)
    /\ UNCHANGED <<calls, tracker, color_call, armVars, appVars, colorVars, pipe>>

CamRelease ==
    /\ FeedExists
    /\ calls.release < MaxCalls
    /\ feed' = Release(feed)
    /\ calls' = [calls EXCEPT !.release = @ + 1]
    /\ UNCHANGED <<tracker, color_call, armVars, appVars, colorVars, pipe>>

CamSetCamera ==
    /\ FeedExists
    /\ feed.env.scan
    /\ \E opens \in BOOLEAN : feed' = SetCamera(feed, opens)
    /\ UNCHANGED <<calls, tracker, color_call, armVars, appVars, colorVars, pipe>>

CamArmMoveTo ==
    /\ last_call' = MoveToCall(arm_is_connected, 35, 35, 0, 0)
    /\ UNCHANGED <<arm_is_connected, ser_open, appVars, colorVars, pipe, unitVars>>

CamArmPickAndSort ==
    /\ \E failAt \in AppFailChoices(arm_is_connected, ser_open) :
          last_call' = PickAndSort(arm_is_connected, 35, 35, "PET", "blue", failAt)
    /\ UNCHANGED <<arm_is_connected, ser_open, appVars, colorVars, pipe, unitVars>>

CamArmClose ==
    /\ calls.close < MaxCalls
    /\ ArmCloseEffect
    /\ calls' = [calls EXCEPT !.close = @ + 1]
    /\ UNCHANGED <<arm_is_connected, appVars, colorVars, pipe, feed, tracker,
                   color_call>>

NextCam ==
    \/ CamConstruct
    \/ CamGetFrame
    \/ CamRelease
    \/ CamSetCamera
    \/ CamArmMoveTo
    \/ CamArmPickAndSort
    \/ CamArmClose

SpecCam == InitCam /\ [][NextCam]_vars

-----------------------------------------------------------------------------
(* SpecColor: ColorDetector called on crops of a frame, directly           *)
(* (detect_color) and as detect_objects calls it (lines 431-438)           *)

InitColor ==
    /\ ArmInit
    /\ ColorInit
    /\ AppAtRest
    /\ camera = "None"
    /\ detector = FALSE
    /\ pipe = NoPipe
    /\ UnitAtRest

\* the region frame[y1:y2, x1:x2]: no bytes when the box has no area
Crop(bbox, px) ==
    [area |-> RoiSize(bbox) > 0, px |-> IF RoiSize(bbox) > 0 THEN px ELSE <<>>]

Classified(via, roi, r) ==
    /\ last_roi_hash' = r.cache.hash
    /\ last_dominant_color' = r.cache.color
    /\ color_call' = [n |-> IF color_call.n < 2 THEN color_call.n + 1 ELSE 2,
                      via |-> via, area |-> roi.area, px |-> roi.px,
                      label |-> r.label, kmeans |-> r.kmeans,
                      raised |-> r.raised, prev_via |-> color_call.via,
                      prev_area |-> color_call.area,
                      prev_px |-> color_call.px,
                      prev_label |-> color_call.label]
    /\ UNCHANGED <<feed, calls, tracker, armVars, appVars, pipe>>

ColorDetectColor ==
    \E bbox \in BBoxes : \E px \in Contents :
    \E cache \in {[hash |-> last_roi_hash, color |-> last_dominant_color]} :
        Classified("detect_color", Crop(bbox, px),
                   DetectColor(Crop(bbox, px), cache))

ColorDetectObjects ==
    \E bbox \in BBoxes : \E px \in Contents :
    \E cache \in {[hash |-> last_roi_hash, color |-> last_dominant_color]} :
        Classified("detect_objects", Crop(bbox, px),
                   ColorOfCrop(bbox, px, cache))

NextColor ==
    \/ ColorDetectColor
    \/ ColorDetectObjects

SpecColor == InitColor /\ [][NextColor]_vars

-----------------------------------------------------------------------------
(* ObjectTracker (object_tracking.py).  self.tracker is the DeepSort       *)
(* tracker of the deep_sort_realtime package, built at line 7 with         *)
(* max_age=30 and the package's n_init of 3.  A track is [id, state, hits, *)
(* tsu]: state is "tentative" or "confirmed", tsu is time_since_update.    *)
(* tracker.out holds the track ids of the last list track() returned and   *)
(* tracker.evicted the ids of the confirmed tracks deleted for their age.  *)

MaxAge == 30

NInit == 3

MaxTrackId == 2

\* Track.predict: one more update without a detection
Predict(t) == [t EXCEPT !.tsu = t.tsu + 1]

\* Track.update: a detection was matched to the track
Matched(t) ==
    [t EXCEPT !.hits = IF t.hits < NInit THEN t.hits + 1 ELSE NInit,
              !.tsu = 0,
              !.state = IF t.state = "tentative" /\ t.hits + 1 >= NInit
                        THEN "confirmed" ELSE t.state]

\* Track.mark_missed deletes the track
Deleted(t) == t.state = "tentative" \/ t.tsu > MaxAge

\* DeepSort.update_tracks: the tracks whose id is in matched got a
\* detection, new detections matched no track
UpdateTracks(trk, matched, new) ==
    LET predicted == {Predict(t) : t \in trk.tracks}
        hit == {Matched(t) : t \in {t \in predicted : t.id \in matched}}
        missed == {t \in predicted : t.id \notin matched}
        started == {[id |-> trk.next_id + i, state |-> "tentative",
                     hits |-> 1, tsu |-> 0] : i \in 0..(new - 1)}
    IN [trk EXCEPT
          !.tracks = hit \cup {t \in missed : ~Deleted(t)} \cup started,
          !.next_id = trk.next_id + new,
          !.evicted = trk.evicted \cup
                      {t.id : t \in {t \in missed : t.state = "confirmed"
                                                    /\ Deleted(t)}}]

TrackUnfiltered(trk, matched, new) ==
    LET u == UpdateTracks(trk, matched, new) IN
        [u EXCEPT !.out = {t.id : t \in u.tracks}]

\* ObjectTracker.track: the confirmed tracks of the updated tracker
Track(trk, matched, new) ==
    LET u == UpdateTracks(trk, matched, new) IN
        [u EXCEPT !.out = {t.id : t \in {t \in u.tracks :
                                            t.state = "confirmed"}}]

-----------------------------------------------------------------------------
(* SpecTrack: ObjectTracker.track called frame after frame                 *)

InitTrack ==
    /\ ArmInit
    /\ ColorInit
    /\ AppAtRest
    /\ camera = "None"
    /\ detector = FALSE
    /\ pipe = NoPipe
    /\ UnitAtRest

TrackFrame ==
    /\ \E matched \in SUBSET {t.id : t \in tracker.tracks} :
       \E new \in 0..(IF tracker.next_id <= MaxTrackId THEN 1 ELSE 0) :
          tracker' = Track(tracker, matched, new)
    /\ UNCHANGED <<feed, calls, color_call, armVars, appVars, colorVars, pipe>>

NextTrack == TrackFrame

SpecTrack == InitTrack /\ [][NextTrack]_vars

-----------------------------------------------------------------------------
(* Claims about RoboticArm and the colour-to-bin chain                     *)

RegistryKeys == PetKeys \cup HdpeKeys \cup {"unknown"}

\* C1: every pick_and_sort that returns, and every disconnected one, has
\* resolved a destination; the destination is (900, 200) when the colour is
\* "unknown" or "<class>_<colour>" is no key of the registry, and the key's
\* coordinate otherwise, in the connected and in the disconnected branch.
C1_BinRoutingResolves ==
    last_call.op = "pick_and_sort" =>
        LET key == last_call.cls_name \o "_" \o last_call.color IN
            /\ (~last_call.raised \/ ~last_call.connected) => last_call.dest # <<>>
            /\ last_call.dest # <<>> =>
                   last_call.dest =
                       IF last_call.color = "unknown" \/ key \notin RegistryKeys
                       THEN <<900, 200>>
                       ELSE <<BinX(key), 200>>

C1_Witness ==
    /\ last_call.op = "pick_and_sort"
    /\ last_call.connected
    /\ last_call.color # "unknown"
    /\ (last_call.cls_name \o "_" \o last_call.color) \notin RegistryKeys
    /\ last_call.dest = <<900, 200>>

PredominantlyBlue(px) ==
    2 * SumPx(SelectSeq(px, LAMBDA e : e[2] = BgrBlue), 0) > SumPx(px, 0)

\* C2: a PET detection with box (10,10,60,60) whose crop is predominantly
\* blue is labelled blue, picked at (35,35) and deposited at the PET-blue
\* bin (150, 200).
C2_PetBlueScenario ==
    ( /\ pipe.stage = "sorted"
      /\ pipe.cls_name = "PET"
      /\ pipe.bbox = <<10, 10, 60, 60>>
      /\ PredominantlyBlue(pipe.px)
      /\ ~last_call.raised )
    => /\ pipe.color = "blue"
       /\ <<last_call.x, last_call.y>> = <<35, 35>>
       /\ last_call.dest = <<150, 200>>

Logged(trace) == SelectSeq(trace, LAMBDA e : e[1] \in {"PRINT_MOVE", "PRINT_PICK"})

\* C3: a disconnected pick_and_sort does not raise and logs as many steps as
\* the connected path transmits commands.
C3_SimulatedSameStepCount ==
    (last_call.op = "pick_and_sort" /\ ~last_call.connected) =>
        /\ ~last_call.raised
        /\ Len(Logged(last_call.trace)) = NumWrites

Choreography(x, y, bx, by) ==
    << <<"MOVE", x, y, 0>>,     <<"SLEEP", 10>>,
       <<"MOVE", x, y, -10>>,   <<"SLEEP", 10>>,
       <<"GRIP", 1>>,           <<"SLEEP", 5>>,
       <<"MOVE", x, y, 0>>,     <<"SLEEP", 10>>,
       <<"RESOLVE", bx, by>>,
       <<"MOVE", bx, by, 0>>,   <<"SLEEP", 10>>,
       <<"MOVE", bx, by, -10>>, <<"SLEEP", 10>>,
       <<"GRIP", 0>>,           <<"SLEEP", 5>>,
       <<"MOVE", bx, by, 0>>,   <<"SLEEP", 10>> >>

\* C4: a connected pick_and_sort issues move above the pick point, descend,
\* GRIP 1, hold, ascend, resolve the bin, move above the bin, descend,
\* GRIP 0, hold, ascend, in this order: what it has issued is always an
\* initial part of that sequence, and the whole of it when the call returns.
C4_ConnectedChoreography ==
    (last_call.op = "pick_and_sort" /\ last_call.connected) =>
        LET b == IF last_call.dest = <<>> THEN <<0, 0>> ELSE last_call.dest
            want == Choreography(last_call.x, last_call.y, b[1], b[2])
            n == Len(last_call.trace)
        IN /\ n <= Len(want)
           /\ last_call.trace = SubSeq(want, 1, n)
           /\ ~last_call.raised => n = Len(want)

C4_Witness ==
    /\ last_call.op = "pick_and_sort"
    /\ last_call.connected
    /\ ~last_call.raised
    /\ Len(Writes(last_call.trace)) = 8

\* C9: when pick_and_sort returns, normally or by raising, the commands it
\* sent do not leave the gripper closed.
C9_GripperResolved ==
    last_call.op = "pick_and_sort" =>
        GripperAfter("open", last_call.trace) # "closed"

-----------------------------------------------------------------------------
(* Claims about the sorting loop and the run state                         *)

\* a step in which a scheduled sort_objects callback fires
SortingTick == sort_callbacks' = sort_callbacks - 1

C6_SortingNeedsCameraAndDetector ==
    /\ running_sorting => (camera # "None" /\ detector)
    /\ last_pass.outcome = "start rejected" =>
           /\ ~running_sorting
           /\ start_button = "normal"
           /\ status_var # "Status: Sorting"

C6_Witness ==
    /\ last_pass.outcome = "start rejected"
    /\ camera = "None" \/ ~detector
    /\ ~running_sorting
    /\ ~closed

RunState ==
    IF closed THEN "Stopped" ELSE IF running_sorting THEN "Sorting" ELSE "Idle"

-----------------------------------------------------------------------------
(* Claims about CameraFeed and the connection state                        *)

\* the source get_frame reads from
Source(f) ==
    IF f.is_connected THEN "live"
    ELSE IF f.fallback_frame THEN "image"
    ELSE IF f.cap = "clip" /\ f.cap_open THEN "clip"
    ELSE "none"

\* C11: with no live camera and the fallback clip open, every get_frame
\* returns a frame of the clip, never None: the n-th call returns frame
\* ((n - 1) mod length) + 1, so the call after the last frame returns the
\* first frame again.
C11_ClipLoops ==
    (feed.op = "get_frame" /\ Source(feed) = "clip") =>
        /\ feed.ret = "clip"
        /\ feed.frame_no = ((feed.reads - 1) % feed.env.clip_len) + 1

C11_Witness ==
    /\ feed.op = "get_frame"
    /\ Source(feed) = "clip"
    /\ feed.reads > feed.env.clip_len
    /\ feed.ret = "clip"
    /\ feed.frame_no = 1

\* C12: construction selects the live camera if it opens, otherwise the
\* clip if it opens, otherwise the image if it loads, and raises exactly
\* when none of the three is available; after a construction that did not
\* raise, get_frame returns a frame of the selected source.
C12_FallbackOrder ==
    feed.op = "__init__" =>
        LET e == feed.env
            live == e.scan /\ e.opens
            clip == e.clip_exists /\ e.clip_opens
            image == e.image_exists /\ e.image_loads
        IN /\ feed.raised <=> (~live /\ ~clip /\ ~image)
           /\ ~feed.raised =>
                /\ Source(feed) = IF live THEN "live"
                                  ELSE IF clip THEN "clip" ELSE "image"
                /\ GetFrameOp(feed, TRUE).ret = Source(feed)

C12_Witness ==
    /\ feed.op = "__init__"
    /\ ~feed.raised
    /\ ~feed.env.opens
    /\ feed.env.clip_exists
    /\ feed.env.image_loads
    /\ Source(feed) = "clip"

\* C14: is_connected of the camera changes only in __init__ and set_camera,
\* and is_connected of the arm never changes after construction: get_frame
\* (an empty read of a live camera included), release, move_to,
\* pick_and_sort and close leave both as they were.
C14_ConnectionStateFrame ==
    [][/\ feed'.is_connected # feed.is_connected =>
              feed'.op \in {"__init__", "set_camera"}
       /\ arm_is_connected' = arm_is_connected]_vars

C14_Witness ==
    /\ feed.op = "get_frame"
    /\ feed.is_connected
    /\ feed.ret = "None"
    /\ feed.cap_open
    /\ arm_is_connected
    /\ last_call.op = "close"

\* C15: a call of release never raises and a second release changes
\* nothing; a call of close never raises and a second close changes
\* nothing, whatever the source and whether the arm is connected.
C15_ReleaseCloseIdempotent ==
    [][/\ calls'.release = calls.release + 1 =>
              /\ ~feed'.raised
              /\ Release(feed') = feed'
              /\ feed.op = "release" => feed' = feed
       /\ calls'.close = calls.close + 1 =>
              /\ ~last_call'.raised
              /\ last_call.op = "close" =>
                    <<arm_is_connected, ser_open, last_call>>' =
                    <<arm_is_connected, ser_open, last_call>>]_vars

C15_Witness ==
    /\ calls.release >= 2
    /\ calls.close >= 2
    /\ feed.op = "release"
    /\ last_call.op = "close"
    /\ arm_is_connected
    /\ Source(feed) = "image"

-----------------------------------------------------------------------------
(* Claims about the application without a camera                           *)

\* C13: when CameraFeed() raised in __init__, the application is idle with
\* the status "Camera Not Initialized", no detection and no frame is ever
\* stored, sorting never starts, and no callback raises AttributeError by
\* calling a method of the camera that is None.
C13_AbsentCameraNeverCalled ==
    camera = "None" =>
        /\ last_pass.outcome # "AttributeError"
        /\ RunState \in {"Idle", "Stopped"}
        /\ status_var = "Status: Camera Not Initialized"
        /\ latest_detections = <<>>
        /\ latest_frame = "None"
        /\ sort_callbacks = 0
        /\ ~cam_released

C13_Witness ==
    /\ camera = "None"
    /\ detector
    /\ closed
    /\ last_pass.outcome = "start rejected"
    /\ last_call.op = "move_to"
    /\ troubleshoot_var = "Troubleshooting: No Issues"

-----------------------------------------------------------------------------
(* Claims about ColorDetector                                              *)

\* C16: when two consecutive classifications are given the same resized
\* region, the second returns the label of the first and does not fit
\* KMeans.
C16_SecondCallFromCache ==
    (/\ color_call.n >= 2
     /\ color_call.area
     /\ color_call.prev_area
     /\ color_call.px = color_call.prev_px) =>
        /\ color_call.label = color_call.prev_label
        /\ ~color_call.kmeans

C16_Witness ==
    /\ color_call.n >= 2
    /\ color_call.area
    /\ color_call.prev_area
    /\ color_call.px = color_call.prev_px
    /\ color_call.label = "Red"
    /\ last_roi_hash = color_call.px
    /\ ~color_call.kmeans

\* C17: the classification of a region without area is "unknown" and raises
\* nothing, by detect_color and by the crop-and-classify lines of
\* detect_objects alike.
C17_EmptyRegionUnknown ==
    (color_call.n >= 1 /\ ~color_call.area) =>
        /\ color_call.label = "unknown"
        /\ ~color_call.raised

C17_Witness ==
    /\ color_call.n >= 2
    /\ ~color_call.area
    /\ ~color_call.prev_area
    /\ color_call.via = "detect_objects"
    /\ color_call.prev_via = "detect_color"
    /\ color_call.label = "unknown"
    /\ color_call.prev_label = "unknown"

-----------------------------------------------------------------------------
(* Claims about ObjectTracker                                              *)

\* C18: every track that track() returns is a confirmed track updated by a
\* detection within the last 30 calls, and a confirmed track that went more
\* than 30 calls without a detection is in no later output.
C18_OnlyLiveConfirmedTracks ==
    \A id \in tracker.out :
        /\ id \notin tracker.evicted
        /\ \E t \in tracker.tracks :
              /\ t.id = id
              /\ t.state = "confirmed"
              /\ t.tsu <= MaxAge

C18_Witness ==
    /\ 1 \in tracker.evicted
    /\ tracker.out = {2}
    /\ \E t \in tracker.tracks : t.tsu = MaxAge

-----------------------------------------------------------------------------
(* Claims about the detections detect_objects stores                       *)

\* C19: every item stored in latest_detections is the detection of a box
\* whose confidence is at least the threshold.
C19_LowConfidenceDiscarded ==
    \A i \in 1..Len(latest_detections) :
        \E b \in RawBoxes :
            /\ b.conf >= ConfThreshold
            /\ latest_detections[i][1] = Str(b.name)
            /\ Box(b.bbox) \in {latest_detections[i][2], latest_detections[i][3]}

\* C20: in every stored detection the item detect_objects unpacks as conf
\* is the confidence number and the item it unpacks as bbox is the box.
C20_TripleOrderConsumed ==
    \A i \in 1..Len(latest_detections) :
        /\ latest_detections[i][2].t = "num"
        /\ latest_detections[i][3].t = "box"

\* the last classification returned the cached colour (lines 49-50)
CacheHit ==
    /\ color_call.area
    /\ ~color_call.kmeans
    /\ color_call.label # "unknown"

\* C23: a classification is served from the cache only when the region
\* classified just before it, dark or not, was the same region.
C23_CacheOnlyForLastRegion ==
    (color_call.n >= 2 /\ color_call.prev_area /\ CacheHit) =>
        color_call.px = color_call.prev_px

-----------------------------------------------------------------------------
(* Claims about the serial commands of RoboticArm                          *)

\* C24: while the arm is not connected the last move_to or pick_and_sort
\* wrote no MOVE and no GRIP command to the serial port and printed one
\* line instead.
C24_DisconnectedWritesNothing ==
    ~arm_is_connected =>
        /\ Writes(last_call.trace) = <<>>
        /\ last_call.op \in {"move_to", "pick_and_sort"} =>
              /\ Len(Logged(last_call.trace)) = 1
              /\ ~last_call.raised

C24_Witness ==
    /\ ~arm_is_connected
    /\ last_call.op = "move_to"
    /\ Logged(last_call.trace) = << <<"PRINT_MOVE", 35, 35, 0>> >>

\* C25: in a connected call every command written is directly followed by
\* a sleep, so a sleep lies between any two consecutive writes; the GRIP
\* commands of pick_and_sort are GRIP 1 (close) at the object and then
\* GRIP 0 (open) at the bin.
C25_SettleAfterEveryWrite ==
    last_call.connected =>
        LET t == last_call.trace
            grips == SelectSeq(t, LAMBDA e : e[1] = "GRIP")
        IN /\ \A i \in 1..Len(t) :
                 IsWrite(t[i]) => (i < Len(t) /\ t[i + 1][1] = "SLEEP")
           /\ \A i \in 1..Len(grips) : grips[i][2] = (IF i = 1 THEN 1 ELSE 0)
           /\ Len(grips) <= 2

C25_Witness ==
    /\ last_call.connected
    /\ last_call.op = "pick_and_sort"
    /\ ~last_call.raised
    /\ Len(SelectSeq(last_call.trace, LAMBDA e : e[1] = "SLEEP")) = NumWrites
    /\ GripperAfter("closed", last_call.trace) = "open"

-----------------------------------------------------------------------------
(* Claims about camera reselection                                         *)

\* C27: after a set_camera whose camera did not open, set_camera has
\* returned without raising, the feed is disconnected and get_frame serves
\* the fallback clip or image.
C27_FailedReselectFallsBack ==
    (feed.op = "set_camera" /\ ~feed.is_connected) =>
        /\ ~feed.raised
        /\ Source(feed) \in {"clip", "image"}
        /\ GetFrameOp(feed, TRUE).ret = Source(feed)

-----------------------------------------------------------------------------
(* Claims about stopping and restarting the sorting loop                   *)

-----------------------------------------------------------------------------
(* C28: every detection detect_objects stored is passed to pick_and_sort   *)
(* at most once: when line 493 is reached for a position of                 *)
(* latest_detections, that position has not been passed to pick_and_sort    *)
(* since the list was stored                                                *)

-----------------------------------------------------------------------------
(* C30: every run of update_frame leaves an update_frame callback pending; *)
(* with latest_detections non-empty, or with no camera, it leaves           *)
(* latest_frame as it was, and otherwise latest_frame becomes what          *)
(* self.camera.get_frame() returned                                         *)

C30_TickAlwaysRescheduled ==
    [][UpdateFrameObserved =>
           /\ tick_callbacks' >= 1
           /\ (latest_detections # <<>> \/ CameraMissing) =>
                  latest_frame' = latest_frame
           /\ (latest_detections = <<>> /\ ~CameraMissing) =>
                  latest_frame' \in GetFrame(camera)]_vars

\* update_frame has run with detections on display and is pending again
C30_Witness ==
    /\ last_tick = "kept"
    /\ latest_detections # <<>>
    /\ latest_frame # "None"
    /\ tick_callbacks = 1
    /\ ~closed

(* C30 as stated: every run of update_frame leaves an update_frame         *)
(* callback pending; with latest_detections non-empty it leaves            *)
(* latest_frame as it was, and otherwise latest_frame becomes a frame      *)
(* newly acquired from the camera                                          *)

C30_FrameReplacedWhenNoDetections ==
    [][UpdateFrameObserved =>
           /\ tick_callbacks' >= 1
           /\ latest_detections # <<>> => latest_frame' = latest_frame
           /\ latest_detections = <<>> =>
                  latest_frame' \in GetFrame(camera)]_vars


-----------------------------------------------------------------------------
(* C26: when the model raised inside the last detect, detect returned []:  *)
(* detect_objects stored an empty latest_detections, no sorting pass is    *)
(* actuating anything, no exception left the callback, and unless the      *)
(* window was closed update_frame is still pending                         *)

C26_DetectorFailureSkipped ==
    detect_call.raised =>
        /\ latest_detections = <<>>
        /\ actuated = {}
        /\ pc \notin {"sort", "pick"}
        /\ last_pass.outcome # "AttributeError"
        /\ ~closed => tick_callbacks >= 1

\* the model raised in the last detect and detect_objects reported no objects
C26_Witness ==
    /\ detect_call = [op |-> "detect", raised |-> TRUE]
    /\ troubleshoot_var = "Troubleshooting: No valid objects detected"
    /\ latest_detections = <<>>
    /\ Mainloop


-----------------------------------------------------------------------------
(* C31: in every reachable state the Start button is disabled and the Stop *)
(* button enabled exactly when running_sorting is true; hence the Start    *)
(* button's command cannot run while sorting is on, nor the Stop button's  *)
(* while it is off                                                         *)

C31_ButtonsMirrorRunState ==
    /\ running_sorting <=> start_button = "disabled"
    /\ running_sorting <=> stop_button = "normal"
    /\ start_button \in {"normal", "disabled"}
    /\ stop_button \in {"normal", "disabled"}
    /\ running_sorting => ~ENABLED StartSorting
    /\ ~running_sorting => ~ENABLED StopSorting

\* sorting is still on after pick_and_sort raised and ended the pass, and
\* the buttons still show it
C31_Witness ==
    /\ running_sorting
    /\ last_pass.outcome = "raised"
    /\ start_button = "disabled"
    /\ stop_button = "normal"
    /\ Mainloop

=============================================================================
